---- MODULE Spec2Model ----
(***************************************************************************)
(* Picuki bulk media downloader: the command line handler of main.py.      *)
(* The model follows one invocation of the tool from the argument check    *)
(* through profile resolution, enumeration, the per-item loop with its     *)
(* download tasks, and the final size summary, together with the local     *)
(* directory tree it works on.                                             *)
(***************************************************************************)
EXTENDS Integers, Sequences, FiniteSets, TLC

\* ------------------------------------------------------------------ bounds
MaxIds == 2        \* longest media-id list the enumerator returns
MaxImages == 1     \* most image urls in one content record
MaxVideos == 1     \* most video entries in one content record
MaxInitFiles == 1  \* files already on disk before the first invocation
NameChars == 3     \* longest file name part of a media url
MaxNameCalls == 2  \* download calls compared for their file names
FilenameChars == 25 \* line 38: the characters get_valid_filename keeps
MaxStatFiles == 2  \* most files below the user directory the summary scans
MaxSize == 2       \* largest st_size of such a file

\* ------------------------------------------------------------------ values
NoUrl == "<None>"                 \* Python None where a url is expected
URLs == {"u1", "u2", "u3"}        \* media urls the viewer site may hand out
ImageUrlSeq == <<"u1", "u2", "u3">> \* the image urls of a record, in order
VideoUrls == {"u1", NoUrl}        \* a video entry's url, or None when absent
ThumbUrls == {"u2", NoUrl}        \* a video entry's thumbnail, or None
Categories == {"images", "videos", "thumbnails"}
NoExc == "<no exception>"
NoReport == "<nothing>"

\* usernames are character sequences; <<>> is an absent or empty --username
RawNames == {<<>>, <<"a">>, <<"@", "a">>, <<"@">>, <<" ">>}

VARIABLES
  pc,        \* position of the invocation
  args,      \* parsed command line (argparse namespace), consumed by _main
  username,  \* normalized username used by the pipeline
  selected,  \* selected media categories
  media_id,  \* module.media_id: identifiers collected by the enumerator
  idx,       \* 1-based position of the per-item loop
  content,   \* content record of the item being processed
  tpos,      \* position in the item's sequence of download calls
  calls,     \* _download_media calls made so far for the current item
  dirs,      \* directories that exist (paths relative to the working dir)
  files,     \* regular files that exist: path -> size in bytes
  fetched,   \* media GETs issued in this invocation: <<folder, url>>
  report,    \* last message written by the logger or the console
  exc,       \* exception that ended the invocation, if any
  last,      \* observation of the last _download_media call
  enumCalls, \* calls of get_media_id in this invocation
  hist,      \* files and media GETs at the end of the first invocation
  profile,   \* the value get_profile returned: falsy or (page, result)
  got,       \* observation of the last content resolution and its item
  wrote,     \* a directory or file was created in this invocation
  dl,        \* a call of _download_file_async taken on its own
  naming,    \* file names computed by repeated calls for one task
  visited,   \* media ids handed to get_media_content in this invocation
  stats,     \* size summaries calculate_total_size returned in this invocation
  inflight   \* network operations issued and not yet completed

vars == <<pc, args, username, selected, media_id, idx, content, tpos, calls,
          dirs, files, fetched, report, exc, last, enumCalls, hist, profile,
          got, wrote, dl, naming, visited, stats, inflight>>

\* ------------------------------------------------------------ pure helpers
SeqUpTo(S, n) == UNION {[1..k -> S] : k \in 0..n}

\* str.strip(): drop surrounding whitespace
RECURSIVE lstrip_space(_)
lstrip_space(s) ==
  IF s # <<>> /\ Head(s) = " " THEN lstrip_space(Tail(s)) ELSE s

RECURSIVE rstrip_space(_)
rstrip_space(s) ==
  IF s # <<>> /\ s[Len(s)] = " " THEN rstrip_space(SubSeq(s, 1, Len(s) - 1)) ELSE s

RECURSIVE lstrip_at(_)
lstrip_at(s) ==
  IF s # <<>> /\ Head(s) = "@" THEN lstrip_at(Tail(s)) ELSE s

\* Picuki.clear_username: the username without surrounding whitespace and
\* without a leading @
clear_username(raw) == lstrip_at(rstrip_space(lstrip_space(raw)))

\* the part of a media url between "/q/" and "||" (the group named filename
\* of the pattern of line 37), as characters; <<>> when the url does not
\* match the pattern
url_filename(url) ==
  CASE url = "u1" -> <<"a", "b", "c">>
    [] url = "u2" -> <<"d", "e">>
    [] OTHER -> <<>>

\* states of the random module: each fixes the order random.shuffle gives
RandomStates ==
  {f \in [1..NameChars -> 1..NameChars] : \A i, j \in 1..NameChars : f[i] = f[j] => i = j}

\* random.shuffle(chars) under the state rnd
shuffle(chars, rnd) ==
  LET n == Len(chars)
      rank(j) == Cardinality({k \in 1..n : rnd[k] <= rnd[j]})
  IN [i \in 1..n |-> chars[CHOOSE j \in 1..n : rank(j) = i]]

\* get_valid_filename(url), lines 33-45: the shuffled first characters of
\* the url's file name part, or ValueError
get_valid_filename(url, rnd) ==
  LET q == url_filename(url)
      kept == SubSeq(q, 1, IF Len(q) < FilenameChars THEN Len(q) ELSE FilenameChars)
  IN IF q = <<>>
     THEN [exc |-> "ValueError", name |-> <<>>]
     ELSE [exc |-> NoExc, name |-> shuffle(kept, rnd)]

\* variant: line 57 takes the base name from get_valid_filename
name_from_get_valid_filename(url) == get_valid_filename(url, naming.rnd).name

\* hashlib.md5(url.encode()).hexdigest(): one digest per url string
md5_hexdigest(url) ==
  CASE url = "u1" -> "9a3f"
    [] url = "u2" -> "c07e"
    [] url = "u3" -> "5b1c"
    [] url = ""   -> "d41d"

\* os.path.join(os.path.realpath(output), username, media_type), as the path
\* below the working directory
output_folder(output, user, media_type) == <<output, user, media_type>>

\* the directory calculate_total_size scans for one category: the entry
\* named media_type directly below os.path.realpath(username)
stats_folder(user, media_type) == <<user, media_type>>

\* a file path: folder, base name, extension ("" when the name has none)
FilePath(folder, base, ext) == <<folder, base, ext>>

\* os.path.exists(filename) for the extension-less path built at line 57
path_exists(fls, folder, base) == FilePath(folder, base, "") \in DOMAIN fls

\* some file of the folder has a name that begins with the digest
prefix_exists(fls, folder, base) ==
  \E p \in DOMAIN fls : p[1] = folder /\ p[2] = base

\* selection list built at lines 158-161
selected_of(kw) ==
  IF kw.all THEN Categories
  ELSE {c \in Categories :
          \/ c = "images" /\ kw.images
          \/ c = "videos" /\ kw.videos
          \/ c = "thumbnails" /\ kw.thumbnails}

\* the guard of line 258
cli_guard(a) ==
  /\ a.username # <<>>
  /\ (a.images \/ a.videos \/ a.thumbnails \/ a.all \/ a.verbose)

\* a network operation is started by calling a coroutine of the module
issue(fl, op) == fl \cup {op}

\* variant: the coroutine is scheduled as a task and not awaited, so it is
\* still running when the next statement executes
not_awaited(fl, op) == fl

\* `await` (lines 163, 172, 184): the caller resumes when the operation has
\* ended, with a result or an exception
awaited(fl, op) == fl \ {op}

\* exception class named by the except clause of line 62
MkdirHandled == {"PermissionError"}

\* variant: the try/except around os.makedirs is lost
mkdir_catches_nothing(e) == FALSE

mkdir_catches(e) == e \in MkdirHandled

\* exception classes named by the except clauses
LoopHandled == {"ReadTimeout", "CancelledError", "SSLWantReadError"}
LoopHandled2 == {"CancelledError", "SSLWantReadError"}
TopHandled == {"CancelledError", "SSLWantReadError"}

\* variant: the first except clause (line 232) is lost, the second remains
loop_catches_second_only(e) == e \in LoopHandled2

loop_catches(e) == e \in LoopHandled \/ e \in LoopHandled2
top_catches(e) == e \in TopHandled

\* where an exception raised inside the loop body ends up: handled by the
\* loop (continue), handled by line 261, or a traceback
unwind(e) ==
  IF loop_catches(e) THEN "continue"
  ELSE IF top_catches(e) THEN "exited" ELSE "crashed"

\* variant: the test reads `if profile is None` while the resolver reports
\* a missing profile with another falsy value
profile_falsy_is_none(p) == p = "None"

\* line 165: `if not profile`
profile_falsy(p) == p = "notfound"

\* line 174: `if not module.media_id`
no_media(ids) == Len(ids) = 0

\* one _download_media call of the per-item loop
Task(url, media_type) == [url |-> url, media_type |-> media_type, output |-> media_type]

\* variant: the `if images:` test of line 191 is lost and a record without
\* images is given one empty url
image_tasks_default_url(images) ==
  IF images = <<>> THEN <<Task("", "images")>>
  ELSE [i \in 1..Len(images) |-> Task(images[i], "images")]

\* lines 190-200: one call per image url
image_tasks(images) == [i \in 1..Len(images) |-> Task(images[i], "images")]

RECURSIVE video_tasks(_, _)
video_tasks(videos, sel) ==
  IF videos = <<>> THEN <<>>
  ELSE (IF "thumbnails" \in sel
          THEN <<Task(Head(videos).thumbnail, "thumbnails")>> ELSE <<>>)
       \o (IF "videos" \in sel
          THEN <<Task(Head(videos).url, "videos")>> ELSE <<>>)
       \o video_tasks(Tail(videos), sel)

\* the _download_media calls lines 189-227 make for one record, in order
item_tasks(media, sel) ==
  (IF "images" \in sel THEN image_tasks(media.images) ELSE <<>>)
  \o (IF "videos" \in sel \/ "thumbnails" \in sel
        THEN video_tasks(media.videos, sel) ELSE <<>>)

\* variant: line 68 is a live call
FetchEnabled_live_call == TRUE

\* line 68: the call of _download_file_async is commented out
FetchEnabled == FALSE

\* ------------------------------------------------------------- downloader
MaxChunks == 2     \* most body chunks of one media response

\* Content-Type header values, as their "/"-separated segments; <<>> is a
\* response without the header
CTypes == {<<"image", "jpeg">>, <<"video", "mp4">>}

\* a response to the media GET: the header, the number of one-byte chunks of
\* the body, and how many of them arrive before the 60 s timeout fires
\* (-1: the timeout fires before the response headers arrive)
Responses ==
  {r \in [ctype : CTypes \cup {<<>>}, chunks : 0..MaxChunks, received : -1..MaxChunks] :
     r.received <= r.chunks}

\* exception class named by the except clause of line 105
DownloaderHandled == {"TimeoutError"}

\* variant: the except clause of line 105 is lost
downloader_catches_nothing(e) == FALSE

downloader_catches(e) == e \in DownloaderHandled

\* an exception raised inside the try block of lines 76-104, with the files
\* as they are at that moment: caught and reported at lines 105-107, or
\* leaving the function
raised_in_try(fls, e) ==
  IF downloader_catches(e)
  THEN [files |-> fls, exc |-> NoExc, report |-> "L107 Download timed out."]
  ELSE [files |-> fls, exc |-> e, report |-> NoReport]

\* the 60 s timeout fires before the body has arrived in full
TimedOut(resp) ==
  resp.received < 0 \/ (resp.ctype # <<>> /\ resp.received < resp.chunks)

\* _download_file_async(url, filename): the files afterwards, the exception
\* that leaves the function and the console message
download_file_async(fls, folder, base, resp) ==
  IF resp.received < 0
  THEN raised_in_try(fls, "TimeoutError")
  ELSE IF resp.ctype = <<>>
  THEN raised_in_try(fls, "ValueError")
  ELSE LET ext == resp.ctype[Len(resp.ctype)]
           p == FilePath(folder, base, ext)
           written == [q \in DOMAIN fls \cup {p} |->
                         IF q = p THEN resp.received ELSE fls[q]]
       IN IF resp.received < resp.chunks
          THEN raised_in_try(written, "TimeoutError")
          ELSE [files |-> written, exc |-> NoExc, report |-> "L104 Completed.. saved as"]

\* ----------------------------------------------------------- size summary
\* the keys of the total_size dictionary, lines 113-118
StatsKeys == {"total", "images", "videos", "thumbnails"}

ZeroSize == [k \in StatsKeys |-> 0]

\* PosixPath(fullpath).glob("*"): the directories directly below ./<username>
\* by name, and the regular files directly below it
root_dirs(drs, user) == {d[2] : d \in {e \in drs : Len(e) = 2 /\ e[1] = user}}
root_files(fls, user) == {p \in DOMAIN fls : p[1] = <<user>>}

\* glob.iterdir(): the entries of the directory named media_type
dir_entries(fls, user, media_type) ==
  {p \in DOMAIN fls : p[1] = stats_folder(user, media_type)}

\* lines 122-126 over the entries still to visit: each adds its st_size to
\* the key named after its directory and to "total"; a directory name that
\* is no key raises KeyError
RECURSIVE add_sizes(_, _, _)
add_sizes(total_size, fls, todo) ==
  IF todo = {} THEN [exc |-> NoExc, total_size |-> total_size]
  ELSE LET filename == CHOOSE p \in todo : TRUE
           media_type == filename[1][2]
           file_size == fls[filename]
       IN IF media_type \notin DOMAIN total_size
          THEN [exc |-> "KeyError", total_size |-> total_size]
          ELSE LET one == [total_size EXCEPT ![media_type] = @ + file_size]
                   two == [one EXCEPT !["total"] = @ + file_size]
               IN add_sizes(two, fls, todo \ {filename})

\* calculate_total_size(username), lines 109-128, on the tree (drs, fls):
\* the exceptions the scan can end with (the order in which glob yields the
\* entries is not fixed) and the dictionary it returns otherwise. iterdir()
\* on a regular file raises NotADirectoryError.
calculate_total_size(fls, drs, user) ==
  LET todo == UNION {dir_entries(fls, user, n) : n \in root_dirs(drs, user)}
      r == add_sizes(ZeroSize, fls, todo)
  IN [excs |-> (IF r.exc = NoExc THEN {} ELSE {r.exc})
                 \cup (IF root_files(fls, user) = {} THEN {} ELSE {"NotADirectoryError"}),
      total_size |-> r.total_size]

\* ------------------------------------------------------------------ inputs
\* video entries: each field present or absent, or both empty strings
VideoEntries ==
  [url : VideoUrls, thumbnail : ThumbUrls] \cup {[url |-> "", thumbnail |-> ""]}

NoContent == [kind |-> "none", exc |-> NoExc, images |-> <<>>, videos |-> <<>>]

ContentRecords ==
  [kind : {"record"}, exc : {NoExc},
   images : {SubSeq(ImageUrlSeq, 1, k) : k \in 0..MaxImages},
   videos : SeqUpTo(VideoEntries, MaxVideos)]

\* exceptions content resolution lets through to the loop
ContentExceptions == {"ReadTimeout", "CancelledError", "SSLWantReadError"}

\* what module.get_media_content(media) gives: a record, nothing, or an
\* exception
ContentOutcomes ==
  ContentRecords \cup {NoContent}
  \cup [kind : {"raise"}, exc : ContentExceptions, images : {<<>>}, videos : {<<>>}]

\* what module.get_profile(username) gives
ProfileOutcomes == {"found", "notfound"} \cup ContentExceptions

Args ==
  [username : RawNames, images : BOOLEAN, videos : BOOLEAN,
   thumbnails : BOOLEAN, all : BOOLEAN, verbose : BOOLEAN]

NoArgs ==
  [username |-> <<>>, images |-> FALSE, videos |-> FALSE,
   thumbnails |-> FALSE, all |-> FALSE, verbose |-> FALSE]

\* files the images folder may hold before the first invocation: for the
\* first urls, the extension-less name and the name a download would store
InitCandidates(user) ==
  {FilePath(output_folder("images", user, "images"), md5_hexdigest(u), e) :
     u \in {"u1", "u2"}, e \in {"", "jpeg"}}

\* the files found at the start belong to one url
InitFileSets(user) ==
  {S \in SUBSET InitCandidates(user) :
     /\ Cardinality(S) <= MaxInitFiles
     /\ \A p, q \in S : p[2] = q[2]}

NoLast ==
  [url |-> NoUrl, media_type |-> "", hadExact |-> FALSE, hadPrefix |-> FALSE,
   outcome |-> "none", got |-> FALSE, mkdir |-> FALSE, base |-> "",
   checked |-> FALSE, changed |-> FALSE]

\* _download_media(url, username, media_type, output), lines 47-70, on the
\* directory tree (drs, fls). mkdir_ok: os.makedirs succeeds; resp: the
\* response a media GET would receive. Gives the tree afterwards, the
\* exception that leaves the call, the message and what the call did.
download_media(fls, drs, t, user, mkdir_ok, resp) ==
  LET folder == output_folder(t.output, user, t.media_type)
      obs == [NoLast EXCEPT !.url = t.url, !.media_type = t.media_type]
      same == [files |-> fls, dirs |-> drs, exc |-> NoExc, report |-> NoReport,
               obs |-> obs]
  IN
  IF t.url = NoUrl
  THEN \* line 51: the assertion fails
       [same EXCEPT !.exc = "AssertionError",
                    !.obs = [obs EXCEPT !.outcome = "AssertionError"]]
  ELSE
    LET base == md5_hexdigest(t.url)
        seen == [obs EXCEPT !.hadExact = path_exists(fls, folder, base),
                            !.hadPrefix = prefix_exists(fls, folder, base),
                            !.mkdir = folder \notin drs /\ mkdir_ok,
                            !.base = base]
    IN
    IF folder \notin drs /\ ~mkdir_ok
    THEN IF mkdir_catches("PermissionError")
         THEN \* lines 62-64: PermissionError, warning, return
              [same EXCEPT !.report = "L63 not writeable",
                           !.obs = [seen EXCEPT !.outcome = "PermissionError"]]
         ELSE [same EXCEPT !.exc = "PermissionError",
                           !.obs = [seen EXCEPT !.outcome = "PermissionError"]]
    ELSE IF ~path_exists(fls, folder, base)
    THEN IF FetchEnabled
         THEN LET r == download_file_async(fls, folder, base, resp)
              IN [files |-> r.files, dirs |-> drs \cup {folder}, exc |-> r.exc,
                  report |-> r.report,
                  obs |-> [seen EXCEPT !.outcome = "download", !.got = TRUE,
                                       !.checked = TRUE]]
         ELSE \* line 67 prints; line 68 is a comment
              [same EXCEPT !.dirs = drs \cup {folder},
                           !.report = "L67 file exists!",
                           !.obs = [seen EXCEPT !.outcome = "download",
                                                !.checked = TRUE]]
    ELSE \* line 70
         [same EXCEPT !.dirs = drs \cup {folder},
                      !.report = "L70 Skipping..",
                      !.obs = [seen EXCEPT !.outcome = "skipped",
                                           !.checked = TRUE]]

NoHist == [files |-> <<>>, fetched |-> {}, set |-> FALSE]

NoGot ==
  [at |-> 0, kind |-> "unset", exc |-> NoExc, empty |-> FALSE, ncalls |-> 0,
   wrote |-> FALSE, gets |-> 0, done |-> FALSE]

NoResponse == [ctype |-> <<>>, chunks |-> 0, received |-> -1]

NoDl ==
  [pc |-> "idle", url |-> NoUrl, folder |-> <<>>, base |-> "",
   resp |-> NoResponse, exc |-> NoExc, report |-> NoReport, ends |-> "",
   gets |-> 0]

NoNaming ==
  [task |-> Task(NoUrl, ""), rnd |-> [i \in 1..NameChars |-> i], names |-> <<>>]

Init ==
  /\ pc = "cli"
  /\ args \in Args
  /\ username = <<>>
  /\ selected = {}
  /\ media_id = <<>>
  /\ idx = 0
  /\ content = NoContent
  /\ tpos = 0
  /\ calls = <<>>
  /\ \E S \in InitFileSets(clear_username(args.username)) :
       /\ files = [p \in S |-> 1]
       /\ dirs = {p[1] : p \in S}
  /\ fetched = {}
  /\ report = NoReport
  /\ exc = NoExc
  /\ last = NoLast
  /\ enumCalls = 0
  /\ hist = NoHist
  /\ profile = "unresolved"
  /\ got = NoGot
  /\ wrote = FALSE
  /\ dl = NoDl
  /\ naming = NoNaming
  /\ visited = <<>>
  /\ stats = <<>>
  /\ inflight = {}

\* ----------------------------------------------------------------- actions
\* the loop position after item i
after_item(i) == IF i + 1 > Len(media_id) THEN "summary" ELSE "loop"

\* lines 256-264: the argument check of the command line
Cli ==
  /\ pc = "cli"
  /\ IF cli_guard(args)
     THEN pc' = "start" /\ report' = NoReport
     ELSE pc' = "help" /\ report' = "L264 print_help"
  /\ UNCHANGED <<args, username, selected, media_id, idx, content, tpos, calls,
                 dirs, files, fetched, exc, last, enumCalls, hist, profile,
                 got, wrote, dl, naming, visited, stats, inflight>>

\* lines 154-161: _main reads its keyword arguments
Start ==
  /\ pc = "start"
  /\ username' = clear_username(args.username)
  /\ selected' = selected_of(args)
  /\ args' = NoArgs
  /\ pc' = "profile"
  /\ inflight' = issue(inflight, <<"get_profile", username'>>)
  /\ UNCHANGED <<media_id, idx, content, tpos, calls, dirs, files, fetched,
                 report, exc, last, enumCalls, hist, profile, got, wrote, dl,
                 naming, visited, stats>>

\* lines 163-170: profile resolution
ResolveProfile ==
  /\ pc = "profile"
  /\ \E out \in ProfileOutcomes :
       IF out \in ContentExceptions
       THEN /\ exc' = out
            /\ UNCHANGED profile
            /\ inflight' = awaited(inflight, <<"get_profile", username>>)
            /\ IF top_catches(out)
               THEN pc' = "exited" /\ report' = "L262 Exception"
               ELSE pc' = "crashed" /\ report' = NoReport
       ELSE /\ profile' = out
            /\ exc' = NoExc
            /\ IF profile_falsy(out)
               THEN /\ pc' = "returned" /\ report' = "L166 Cannot find user"
                    /\ inflight' = awaited(inflight, <<"get_profile", username>>)
               ELSE /\ pc' = "enumerate" /\ report' = "L170 show_table"
                    /\ inflight' = issue(awaited(inflight, <<"get_profile", username>>),
                                         <<"get_media_id", username>>)
  /\ UNCHANGED <<args, username, selected, media_id, idx, content, tpos, calls,
                 dirs, files, fetched, last, enumCalls, hist, got, wrote, dl,
                 naming, visited, stats>>

\* lines 172-179: enumeration of the media ids; with an empty list line 175
\* evaluates profile.get on the (page, result) tuple while building the
\* warning, which raises AttributeError
Enumerate ==
  /\ pc = "enumerate"
  /\ enumCalls' = enumCalls + 1
  /\ inflight' = awaited(inflight, <<"get_media_id", username>>)
  /\ \E n \in 0..MaxIds :
       /\ media_id' = [i \in 1..n |-> i]
       /\ IF no_media(media_id')
          THEN /\ exc' = "AttributeError"
               /\ pc' = IF top_catches("AttributeError") THEN "exited" ELSE "crashed"
               /\ report' = NoReport /\ idx' = 0
          ELSE /\ pc' = "loop" /\ exc' = NoExc
               /\ report' = "L179 starting download" /\ idx' = 1
  /\ UNCHANGED <<args, username, selected, content, tpos, calls, dirs, files,
                 fetched, last, hist, profile, got, wrote, dl, naming, visited,
                 stats>>

\* lines 181-184: the loop takes the next media id, announces it and calls
\* get_media_content for it
NextItem ==
  /\ pc = "loop"
  /\ idx <= Len(media_id)
  /\ pc' = "resolve"
  /\ report' = "L182 Getting content"
  /\ got' = NoGot
  /\ last' = NoLast
  /\ calls' = <<>>
  /\ inflight' = issue(inflight, <<"get_media_content", media_id[idx]>>)
  /\ UNCHANGED <<args, username, selected, media_id, idx, content, tpos, dirs,
                 files, fetched, exc, enumCalls, hist, profile, wrote, dl,
                 naming, visited, stats>>

\* lines 184-187 and 230-239: content resolution for the item at idx
ResolveContent ==
  /\ pc = "resolve"
  /\ \E out \in ContentOutcomes :
       /\ got' = [NoGot EXCEPT !.at = idx, !.kind = out.kind, !.exc = out.exc,
                    !.empty = (out.kind = "record" /\ out.images = <<>>
                               /\ out.videos = <<>>)]
       /\ CASE out.kind = "record" ->
                 /\ content' = out /\ tpos' = 1 /\ pc' = "item"
                 /\ report' = "L187 show_table"
                 /\ UNCHANGED <<idx, exc>>
            [] out.kind = "none" ->
                 /\ content' = NoContent /\ tpos' = 0
                 /\ report' = "L231 Cannot get content"
                 /\ idx' = idx + 1 /\ pc' = after_item(idx)
                 /\ UNCHANGED exc
            [] out.kind = "raise" ->
                 /\ content' = NoContent /\ tpos' = 0
                 /\ IF unwind(out.exc) = "continue"
                    THEN /\ report' = "L233 Exception in media ID"
                         /\ idx' = idx + 1 /\ pc' = after_item(idx)
                         /\ UNCHANGED exc
                    ELSE /\ exc' = out.exc /\ UNCHANGED idx
                         /\ pc' = unwind(out.exc)
                         /\ report' = IF unwind(out.exc) = "exited"
                                      THEN "L262 Exception" ELSE NoReport
  /\ calls' = <<>>
  /\ last' = NoLast
  /\ visited' = Append(visited, media_id[idx])
  /\ inflight' = awaited(inflight, <<"get_media_content", media_id[idx]>>)
  /\ UNCHANGED <<args, username, selected, media_id, dirs, files, fetched,
                 enumCalls, hist, profile, wrote, dl, naming, stats>>

\* one _download_media call (lines 47-70) made by line 195, 211 or 220
DownloadMedia ==
  /\ pc = "item"
  /\ tpos <= Len(item_tasks(content, selected))
  /\ \E mkdir_ok \in BOOLEAN, resp \in (IF FetchEnabled THEN Responses ELSE {NoResponse}) :
       LET t == item_tasks(content, selected)[tpos]
           r == download_media(files, dirs, t, username, mkdir_ok, resp)
           folder == output_folder(t.output, username, t.media_type)
       IN
       /\ (folder \in dirs \/ t.url = NoUrl) => mkdir_ok
       /\ calls' = Append(calls, t)
       /\ files' = r.files
       /\ dirs' = r.dirs
       /\ last' = [r.obs EXCEPT !.changed = (r.dirs # dirs \/ r.files # files)]
       /\ fetched' = IF r.obs.got THEN fetched \cup {<<folder, t.url>>} ELSE fetched
       /\ inflight' = IF r.obs.got
                      THEN awaited(issue(inflight, <<"media GET", t.url>>),
                                   <<"media GET", t.url>>)
                      ELSE inflight
       /\ wrote' = (wrote \/ r.dirs # dirs \/ r.files # files)
       /\ got' = [got EXCEPT !.ncalls = @ + 1,
                             !.wrote = @ \/ r.dirs # dirs \/ r.files # files,
                             !.gets = IF r.obs.got THEN 1 ELSE @]
       /\ IF r.exc = NoExc
          THEN /\ report' = r.report
               /\ tpos' = tpos + 1
               /\ UNCHANGED <<pc, idx, exc, content>>
          ELSE IF unwind(r.exc) = "continue"
          THEN /\ report' = "L233 Exception in media ID"
               /\ idx' = idx + 1 /\ pc' = after_item(idx)
               /\ content' = NoContent /\ tpos' = 0
               /\ UNCHANGED exc
          ELSE /\ exc' = r.exc
               /\ pc' = unwind(r.exc)
               /\ report' = IF unwind(r.exc) = "exited"
                            THEN "L262 Exception" ELSE NoReport
               /\ UNCHANGED <<idx, tpos, content>>
  /\ UNCHANGED <<args, username, selected, media_id, enumCalls, hist, profile,
                 dl, naming, visited, stats>>

\* line 229: the item's calls are made; cooldown, then the next media id
FinishItem ==
  /\ pc = "item"
  /\ tpos > Len(item_tasks(content, selected))
  /\ content' = NoContent
  /\ tpos' = 0
  /\ calls' = <<>>
  /\ last' = NoLast
  /\ got' = [got EXCEPT !.done = TRUE]
  /\ idx' = idx + 1
  /\ pc' = after_item(idx)
  /\ report' = "L229 cooldown"
  /\ UNCHANGED <<args, username, selected, media_id, dirs, files, fetched, exc,
                 enumCalls, hist, profile, wrote, dl, naming, visited, stats, inflight>>

\* line 241: the size summary after the last item
Summarize ==
  /\ pc = "summary"
  /\ LET r == calculate_total_size(files, dirs, username)
     IN IF r.excs = {}
        THEN /\ pc' = "done"
             /\ stats' = Append(stats, r.total_size)
             /\ report' = "L147 Total Size"
             /\ UNCHANGED exc
        ELSE \E e \in r.excs :
               /\ exc' = e
               /\ pc' = IF top_catches(e) THEN "exited" ELSE "crashed"
               /\ report' = IF top_catches(e) THEN "L262 Exception" ELSE NoReport
               /\ UNCHANGED stats
  /\ got' = NoGot
  /\ last' = NoLast
  /\ calls' = <<>>
  /\ UNCHANGED <<args, username, selected, media_id, idx, content, tpos,
                 dirs, files, fetched, enumCalls, hist, profile,
                 wrote, dl, naming, visited, inflight>>

Ended == pc \in {"returned", "done", "crashed", "exited"}

\* the tool is started again with the same command line in the same directory
Rerun ==
  /\ Ended
  /\ hist' = IF hist.set THEN hist
             ELSE [files |-> files, fetched |-> fetched, set |-> TRUE]
  /\ pc' = "profile"
  /\ media_id' = <<>>
  /\ idx' = 0
  /\ content' = NoContent
  /\ tpos' = 0
  /\ calls' = <<>>
  /\ fetched' = {}
  /\ report' = NoReport
  /\ exc' = NoExc
  /\ last' = NoLast
  /\ enumCalls' = 0
  /\ profile' = "unresolved"
  /\ got' = NoGot
  /\ wrote' = FALSE
  /\ visited' = <<>>
  /\ stats' = <<>>
  /\ inflight' = issue({}, <<"get_profile", username>>)
  /\ UNCHANGED <<args, username, selected, dirs, files, dl, naming>>

Next ==
  \/ Cli
  \/ Start
  \/ ResolveProfile
  \/ Enumerate
  \/ NextItem
  \/ ResolveContent
  \/ DownloadMedia
  \/ FinishItem
  \/ Summarize
  \/ Rerun

Spec == Init /\ [][Next]_vars

\* ------------------------------------------- the downloader taken on its own
\* _download_file_async has no caller left in main.py (line 68), so its
\* behaviour is examined by applying it to every url, destination, directory
\* content and response of the bounded sets above. hist.files keeps the files
\* found before the call; dl.ends is where an exception leaving the function
\* would end under the except clauses of the per-item loop and of __main__.
InitDl ==
  /\ pc = "downloader"
  /\ args = NoArgs
  /\ username = <<"a">>
  /\ selected = {}
  /\ media_id = <<>>
  /\ idx = 0
  /\ content = NoContent
  /\ tpos = 0
  /\ calls = <<>>
  /\ \E S \in InitFileSets(username) :
       /\ files = [p \in S |-> 1]
       /\ dirs = {output_folder(c, username, c) : c \in Categories}
  /\ fetched = {}
  /\ report = NoReport
  /\ exc = NoExc
  /\ last = NoLast
  /\ enumCalls = 0
  /\ hist = [files |-> files, fetched |-> {}, set |-> FALSE]
  /\ profile = "unresolved"
  /\ got = NoGot
  /\ wrote = FALSE
  /\ naming = NoNaming
  /\ visited = <<>>
  /\ stats = <<>>
  /\ \E u \in URLs \cup {""}, c \in Categories, resp \in Responses :
       dl = [NoDl EXCEPT !.pc = "call", !.url = u,
                         !.folder = output_folder(c, username, c),
                         !.base = md5_hexdigest(u), !.resp = resp]
  /\ inflight = issue({}, <<"media GET", dl.url>>)

\* lines 72-107: one call of _download_file_async(url, filename)
DownloadFileAsync ==
  /\ dl.pc = "call"
  /\ LET r == download_file_async(files, dl.folder, dl.base, dl.resp)
     IN /\ files' = r.files
        /\ inflight' = awaited(inflight, <<"media GET", dl.url>>)
        /\ dl' = [dl EXCEPT !.pc = "done", !.gets = @ + 1, !.exc = r.exc, !.report = r.report,
                            !.ends = IF r.exc = NoExc THEN "returned"
                                     ELSE unwind(r.exc)]
  /\ UNCHANGED <<pc, args, username, selected, media_id, idx, content, tpos,
                 calls, dirs, fetched, report, exc, last, enumCalls, hist,
                 profile, got, wrote, naming, visited, stats>>

NextDl == DownloadFileAsync

SpecDownloader == InitDl /\ [][NextDl]_vars

\* --------------------------------------- the file name of a download task
\* _download_media is called repeatedly for one task, in the same or in a
\* later run, with the random module in any state at each call; naming.names
\* keeps the base name each call computes at line 57.
InitNames ==
  /\ pc = "names"
  /\ args = NoArgs
  /\ username = <<"a">>
  /\ selected = {}
  /\ media_id = <<>>
  /\ idx = 0
  /\ content = NoContent
  /\ tpos = 0
  /\ calls = <<>>
  /\ files = <<>>
  /\ dirs = {}
  /\ fetched = {}
  /\ report = NoReport
  /\ exc = NoExc
  /\ last = NoLast
  /\ enumCalls = 0
  /\ hist = NoHist
  /\ profile = "unresolved"
  /\ got = NoGot
  /\ wrote = FALSE
  /\ dl = NoDl
  /\ visited = <<>>
  /\ stats = <<>>
  /\ inflight = {}
  /\ \E u \in URLs \cup {""}, c \in Categories, rnd \in RandomStates :
       naming = [task |-> Task(u, c), rnd |-> rnd, names |-> <<>>]

\* one more _download_media call for the task; afterwards the random module
\* is in any state
NameTask ==
  /\ pc = "names"
  /\ Len(naming.names) < MaxNameCalls
  /\ \E mkdir_ok \in BOOLEAN, rnd \in RandomStates :
       LET r == download_media(files, dirs, naming.task, username, mkdir_ok, NoResponse)
       IN /\ files' = r.files
          /\ dirs' = r.dirs
          /\ last' = r.obs
          /\ report' = r.report
          /\ naming' = [naming EXCEPT !.names = Append(@, r.obs.base), !.rnd = rnd]
  /\ UNCHANGED <<pc, args, username, selected, media_id, idx, content, tpos,
                 calls, fetched, exc, enumCalls, hist, profile, got, wrote, dl,
                 visited, stats, inflight>>

NextNames == NameTask

SpecNames == InitNames /\ [][NextNames]_vars

\* ------------------------------------------ the size summary taken on its own
\* calculate_total_size(username) is applied to every content of the
\* directory ./<username> within the bounds: directories named after the
\* categories, a directory named total, a directory of another name, each
\* empty, absent or holding files, and a regular file directly below
\* ./<username>.
StatDirNames == Categories \cup {"total", "other"}

StatCandidates(user) ==
  {FilePath(stats_folder(user, n), b, "jpeg") : n \in StatDirNames, b \in {"9a3f", "c07e"}}
  \cup {FilePath(<<user>>, "9a3f", "jpeg")}

InitStats ==
  /\ pc = "stats"
  /\ args = NoArgs
  /\ username = <<"a">>
  /\ selected = {}
  /\ media_id = <<>>
  /\ idx = 0
  /\ content = NoContent
  /\ tpos = 0
  /\ calls = <<>>
  /\ \E S \in SUBSET StatCandidates(username) :
       /\ Cardinality(S) <= MaxStatFiles
       /\ files \in [S -> 0..MaxSize]
       /\ \E E \in SUBSET {stats_folder(username, n) : n \in StatDirNames} :
            dirs = E \cup {p[1] : p \in {q \in S : Len(q[1]) = 2}}
  /\ fetched = {}
  /\ report = NoReport
  /\ exc = NoExc
  /\ last = NoLast
  /\ enumCalls = 0
  /\ hist = NoHist
  /\ profile = "unresolved"
  /\ got = NoGot
  /\ wrote = FALSE
  /\ dl = NoDl
  /\ naming = NoNaming
  /\ visited = <<>>
  /\ stats = <<>>
  /\ inflight = {}

\* lines 109-128: one call of calculate_total_size(username)
CalculateTotalSize ==
  /\ pc = "stats"
  /\ LET r == calculate_total_size(files, dirs, username)
     IN IF r.excs = {}
        THEN /\ stats' = Append(stats, r.total_size)
             /\ pc' = "stats returned"
             /\ UNCHANGED exc
        ELSE \E e \in r.excs :
               /\ exc' = e
               /\ pc' = "stats raised"
               /\ UNCHANGED stats
  /\ UNCHANGED <<args, username, selected, media_id, idx, content, tpos, calls,
                 dirs, files, fetched, report, last, enumCalls, hist, profile,
                 got, wrote, dl, naming, visited, inflight>>

NextStats == CalculateTotalSize

SpecStats == InitStats /\ [][NextStats]_vars

\* ------------------------------------------------------------------ claims
CallCount(c) == Cardinality({i \in DOMAIN calls : calls[i].media_type = c})

\* the number of calls the record calls for in category c
Expected(rec, sel, c) ==
  IF c \notin sel THEN 0
  ELSE IF c = "images" THEN Len(rec.images) ELSE Len(rec.videos)

C2_PrefixMatchSkips ==
  (last.outcome # "none" /\ last.hadPrefix) =>
    (last.outcome = "skipped" /\ ~last.got)

\* C3: a download call with a non-empty url that finds no file beginning
\* with the url's digest in the destination folder issues a GET for the url.
C3_MissingFileIsFetched ==
  (last.outcome \in {"download", "skipped"} /\ last.url \notin {NoUrl, ""}
     /\ ~last.hadPrefix) => last.got

C5_NotFoundEndsRun ==
  profile = "notfound" =>
    /\ pc = "returned"
    /\ report = "L166 Cannot find user"
    /\ exc = NoExc
    /\ enumCalls = 0
    /\ media_id = <<>>
    /\ got = NoGot
    /\ calls = <<>>
    /\ fetched = {}
    /\ ~wrote

C5_Witness == profile = "notfound" /\ pc = "returned" /\ selected = Categories

\* C6: when the profile is found and the enumeration gives no media id, the
\* run reports that the profile has no posts and returns normally.
C6_EmptyFeedReturnsWithWarning ==
  (profile = "found" /\ enumCalls > 0 /\ no_media(media_id)) =>
    (pc = "returned" /\ report = "L175 no posts" /\ exc = NoExc)

\* C7: download calls are made only for selected categories, and once the
\* processing of a record has ended the calls made for it number, per
\* category, one per image url (images), one per video entry (videos) and
\* one per video entry (thumbnails) when the category is selected.
C7_CallsMatchSelection ==
  /\ \A i \in DOMAIN calls : calls[i].media_type \in selected
  /\ (content.kind = "record"
        /\ (tpos > Len(item_tasks(content, selected)) \/ pc \in {"crashed", "exited"}))
     => \A c \in Categories : CallCount(c) = Expected(content, selected, c)

\* C8: for a record with no images and no videos, under every selection, no
\* download call is made, no GET is issued, nothing is created on disk, no
\* exception ends the run, and the loop goes on to the next media id.
C8_EmptyRecordNoEffects ==
  (got.kind = "record" /\ got.empty) =>
    /\ got.ncalls = 0
    /\ got.gets = 0
    /\ ~got.wrote
    /\ exc = NoExc
    /\ pc \in {"item", "loop", "summary"}
    /\ (got.done => (idx = got.at + 1 /\ pc = after_item(got.at)))

C8_Witness ==
  /\ got.kind = "record" /\ got.empty /\ got.done
  /\ selected = Categories /\ pc = "loop" /\ idx = 2

\* C9: a download call with an empty or absent url fails for that task
\* alone: no directory is created, no GET is issued, and the run goes on
\* with the item's remaining calls.
C9_InvalidTargetIsLocal ==
  (last.outcome # "none" /\ last.url \in {NoUrl, ""}) =>
    (pc = "item" /\ exc = NoExc /\ ~last.mkdir /\ ~last.got)

\* C10: when the response to the media GET has no content type, no file is
\* created and no exception leaves the download task.
C10_MissingContentTypeIsLocal ==
  (dl.pc = "done" /\ dl.resp.ctype = <<>> /\ dl.resp.received >= 0) =>
    (files = hist.files /\ dl.exc = NoExc /\ dl.ends = "returned")

\* C11: every download call made for the user goes to the directory the
\* size summary scans for the call's category.
C11_TasksStoreWhereStatsScan ==
  \A i \in DOMAIN calls :
    output_folder(calls[i].output, username, calls[i].media_type)
      = stats_folder(username, calls[i].media_type)

\* C12: the pipeline is started only for a command line that names a
\* username together with at least one of --images, --videos, --thumbnails
\* and --all; every other command line gets the help text.
C12_PipelineNeedsSelection ==
  /\ pc = "start" =>
       (args.username # <<>>
          /\ (args.images \/ args.videos \/ args.thumbnails \/ args.all))
  /\ pc = "help" =>
       ~(args.username # <<>>
          /\ (args.images \/ args.videos \/ args.thumbnails \/ args.all))
  /\ pc \in {"profile", "enumerate", "loop", "resolve", "item"} => selected # {}

\* C13: the calls made for one task, whatever the state of the random module
\* and whether in the same run or a later one, all compute the same base
\* name for the destination.
C13_SameUrlSameBasename ==
  \A i, j \in DOMAIN naming.names : naming.names[i] = naming.names[j]

C13_Witness ==
  /\ naming.names = <<"9a3f", "9a3f">>
  /\ naming.task.url = "u1"
  /\ last.outcome = "download"

\* C14: profile resolution is reached, and a profile is resolved, only with
\* a username that is non-empty after normalization.
C14_EmptyUsernameFailsFast ==
  /\ pc = "profile" => username # <<>>
  /\ (profile # "unresolved" \/ enumCalls > 0) => username # <<>>

\* C15: once the media ids are enumerated, get_media_content is called for
\* each of them once, in enumeration order; the size summary is computed
\* once, after the last of them; and the run ends in no other way than by
\* the summary.
C15_EachItemOnceThenSummary ==
  /\ Len(visited) <= Len(media_id)
  /\ visited = SubSeq(media_id, 1, Len(visited))
  /\ pc \in {"loop", "resolve"} => Len(visited) = idx - 1
  /\ pc = "item" => Len(visited) = idx
  /\ pc \in {"summary", "done"} => visited = media_id
  /\ Len(stats) <= 1
  /\ stats # <<>> <=> pc = "done"
  /\ media_id # <<>> => pc \in {"loop", "resolve", "item", "summary", "done"}

\* C16: at most one network operation is in flight at any time.
C16_OneOperationInFlight == Cardinality(inflight) <= 1

C16_Witness ==
  /\ pc = "resolve" /\ idx = 2
  /\ inflight = {<<"get_media_content", 2>>}
  /\ got = NoGot /\ dirs # {}

\* C17: a download call whose destination directory is missing and cannot
\* be created for lack of permission logs the warning and returns: it makes
\* no existence check of the file, no GET, creates nothing, and the item's
\* processing goes on with the next call.
C17_MkdirFailureIsLocal ==
  last.outcome = "PermissionError" =>
    /\ report = "L63 not writeable"
    /\ ~last.checked /\ ~last.got /\ ~last.mkdir /\ ~last.changed
    /\ exc = NoExc
    /\ pc = "item"
    /\ tpos = Len(calls) + 1

C17_Witness ==
  /\ last.outcome = "PermissionError" /\ last.media_type = "thumbnails"
  /\ pc = "item" /\ tpos = 2 /\ Len(item_tasks(content, selected)) = 2
  /\ idx = 1 /\ Len(media_id) = 2

\* C18: when the timeout fires during the media request, the downloader
\* prints the message and returns: no exception leaves it, it has issued the
\* one GET only, and nothing is left in flight.
C18_TimeoutIsLocal ==
  (dl.pc = "done" /\ TimedOut(dl.resp)) =>
    /\ dl.report = "L107 Download timed out."
    /\ dl.exc = NoExc
    /\ dl.ends = "returned"
    /\ dl.gets = 1
    /\ inflight = {}

C18_Witness ==
  /\ dl.pc = "done" /\ dl.resp.chunks = 2 /\ dl.resp.received = 1
  /\ dl.report = "L107 Download timed out."
  /\ files # hist.files

\* the sizes of a set of files, added up
RECURSIVE SumSizes(_, _)
SumSizes(fls, S) ==
  IF S = {} THEN 0
  ELSE LET p == CHOOSE q \in S : TRUE IN fls[p] + SumSizes(fls, S \ {p})

\* C19: a dictionary calculate_total_size returns has, for each category,
\* the sum of the sizes of the files directly in the directory of that name
\* (0 when there is none), and as total the sum of the three categories.
C19_TotalsAddUp ==
  \A i \in DOMAIN stats :
    /\ stats[i].total = stats[i].images + stats[i].videos + stats[i].thumbnails
    /\ \A c \in Categories :
         stats[i][c] = SumSizes(files, dir_entries(files, username, c))

====
